---- MODULE Spec2Model ----
(***************************************************************************)
(* Model of the doctor-server HTTP service (src/server.js): the           *)
(* regist_user_info and update-chat request handlers running as           *)
(* cooperative tasks against a document store.  A handler runs without     *)
(* interruption up to each `await` on a store call; the store executes     *)
(* every single call atomically.                                           *)
(***************************************************************************)
EXTENDS Integers, Sequences, FiniteSets, TLC

(* ---------------------------- bounds ---------------------------------- *)
MaxProcs == 2        \* update-chat requests that may be in flight together
MaxReqs == 3         \* update-chat requests received in one behaviour
MaxSeqReqs == 2      \* the same, when requests run one after another
MaxUserProcs == 2    \* regist_user_info requests in flight together
MaxUserReqs == 3     \* regist_user_info requests received in one behaviour
MaxWriteReqs == 2    \* write requests of both kinds received together
MaxDocs == 4         \* documents in a collection that reports are read from
MaxRaceReqs == 2     \* update-chat requests received while reports run

Procs == 1..MaxProcs
UserProcs == 1..MaxUserProcs

(* ------------------------- JavaScript values -------------------------- *)
\* Request-body fields are untyped JSON values: a tag and one payload.
JsUndef == [t |-> "undefined", n |-> 0, s |-> "", a |-> <<>>]
JsNum(n) == [t |-> "number", n |-> n, s |-> "", a |-> <<>>]
JsStr(s) == [t |-> "string", n |-> 0, s |-> s, a |-> <<>>]
JsArr(a) == [t |-> "array", n |-> 0, s |-> "", a |-> a]

\* JavaScript truthiness, as used by the `!x` tests of the handlers.
Truthy(v) ==
  CASE v.t = "undefined" -> FALSE
    [] v.t = "number" -> v.n # 0
    [] v.t = "string" -> v.s # ""
    [] v.t = "array" -> TRUE

IsArray(v) == v.t = "array"

\* getTime() of an Invalid Date.
NaN == -1

\* new Date(string).getTime(), in epoch seconds; a string that is not a
\* date gives an Invalid Date.
ParseDate(s) ==
  CASE s = "2024-01-01" -> 1704067200
    [] s = "2024-01-01T09:00:00Z" -> 1704099600
    [] s = "2024-01-02" -> 1704153600
    [] OTHER -> NaN

\* new Date(chat_date) of a body field (only strings are modelled).
NewDate(v) == IF v.t = "string" THEN ParseDate(v.s) ELSE NaN

(* ------------------------------ inputs -------------------------------- *)
\* Messages as clients send them: date is a date string, "" when absent.
m1 == [sender |-> "user", message |-> "hello", date |-> ""]
m2 == [sender |-> "bot", message |-> "hi", date |-> "2024-01-01T09:00:00Z"]

\* Values `new Date()` may return while a request is being processed.
NowValues == {1704100000, 1704100001}

Emails == {JsStr(""), JsStr("a@x"), JsStr("b@x")}
ChatDates == {JsStr(""), JsStr("not-a-date"), JsStr("2024-01-01")}
ChatLists == {JsUndef, JsStr("text"), JsArr(<<>>), JsArr(<<m1>>), JsArr(<<m2>>)}
InputTokens == {JsUndef, JsNum(0), JsNum(-1), JsNum(2)}
OutputTokens == {JsNum(0), JsNum(1)}

\* Every update-chat body over the field values above.
AllChatBodies ==
  [email : Emails, chat_date : ChatDates, chat_list : ChatLists,
   input_token : InputTokens, output_token : OutputTokens]

\* The bodies used when requests overlap: two users, one day, and two
\* batches that differ in their message and in both token counts.
ConcChatBodies ==
  [email : {JsStr("a@x"), JsStr("b@x")}, chat_date : {JsStr("2024-01-01")},
   chat_list : {JsArr(<<m1>>)}, input_token : {JsNum(2)},
   output_token : {JsNum(1)}]
  \cup
  [email : {JsStr("a@x"), JsStr("b@x")}, chat_date : {JsStr("2024-01-01")},
   chat_list : {JsArr(<<m2>>)}, input_token : {JsNum(5)},
   output_token : {JsNum(3)}]

NoBody ==
  [email |-> JsUndef, chat_date |-> JsUndef, chat_list |-> JsUndef,
   input_token |-> JsUndef, output_token |-> JsUndef]

(* ------------------------------- state -------------------------------- *)
VARIABLES
  chats,     \* the chat_history collection, in insertion order (_id = index)
  users,     \* the user_info collection, in insertion order
  req,       \* per update-chat task: position, body and handler locals
  ureq,      \* per regist_user_info task: position and body
  applied,   \* history: the update-chat requests answered 200 or 201, in order
  uapplied,  \* history: the regist_user_info writes that took effect
  nreq,      \* update-chat requests received so far
  nureq,     \* regist_user_info requests received so far
  rreq,      \* the get-chat-histories task: position, query and results
  lreq,      \* the get-chat-list task: position, id and answer
  snaps,     \* history: the values of chats since the report in flight began
  shown      \* history: what each page of the report last showed

vars == <<chats, users, req, ureq, applied, uapplied, nreq, nureq,
          rreq, lreq, snaps, shown>>
readVars == <<rreq, lreq, snaps, shown>>
chatVars == <<chats, req, applied, nreq>>
userVars == <<users, ureq, uapplied, nureq>>

IdleReq ==
  [pc |-> "idle", body |-> NoBody, parsedChatDate |-> NaN,
   processedChatList |-> <<>>, status |-> 0]

IdleUserReq ==
  [pc |-> "idle", body |-> [email |-> JsUndef, user_name |-> JsUndef,
                            license_number |-> JsUndef],
   email |-> JsUndef, user_name |-> JsUndef, license_number |-> JsUndef,
   status |-> 0]

\* req.query of get-chat-histories with no parameter given.
NoQuery ==
  [page |-> JsUndef, pageSize |-> JsUndef, email |-> JsUndef,
   startDate |-> JsUndef, endDate |-> JsUndef,
   excludeAdminData |-> JsUndef, adminEmails |-> JsUndef]

\* The store filter before anything is put in it.
NoFilter == [email |-> [op |-> "any", eq |-> "", nin |-> {}], gte |-> 0, lte |-> 0]

NoResponse ==
  [data |-> <<>>, currentPage |-> 0, totalPages |-> 0, totalCount |-> 0,
   totalInputTokens |-> 0, totalOutputTokens |-> 0, startDate |-> 0,
   endDate |-> 0]

IdleReport ==
  [pc |-> "idle", q |-> NoQuery, query |-> NoFilter, skip |-> 0, limit |-> 0,
   got |-> {}, results |-> <<>>, totalCount |-> 0,
   totalTokens |-> <<>>, status |-> 0, res |-> NoResponse]

IdleList ==
  [pc |-> "idle", id |-> [wellFormed |-> TRUE, oid |-> 0], status |-> 0,
   error |-> "none", res |-> <<>>]

NothingShown == [q |-> NoQuery, pages |-> {}]

\* The tasks and histories before any request.
NoRequests ==
  /\ req = [p \in Procs |-> IdleReq]
  /\ ureq = [p \in UserProcs |-> IdleUserReq]
  /\ applied = <<>>
  /\ uapplied = <<>>
  /\ nreq = 0
  /\ nureq = 0
  /\ rreq = IdleReport
  /\ lreq = IdleList
  /\ snaps = {}
  /\ shown = NothingShown

Init ==
  /\ chats = <<>>
  /\ users = <<>>
  /\ NoRequests

(* --------------------------- store primitives ------------------------- *)
\* Positions of the documents of a collection matching an (email,
\* chat_date) filter, and the first of them (what findOne and
\* findOneAndUpdate select).  0 stands for null.
Matching(coll, email, date) ==
  {i \in DOMAIN coll : coll[i].email = email /\ coll[i].chat_date = date}

Min(S) == CHOOSE x \in S : \A y \in S : x <= y

Range(f) == {f[i] : i \in DOMAIN f}

FindOne(coll, email, date) ==
  IF Matching(coll, email, date) = {} THEN 0 ELSE Min(Matching(coll, email, date))

(* ---------------------------- update-chat ----------------------------- *)
\* Variant: the validation without the two token tests.
InvalidBody_NoTokenTest(b) ==
  \/ ~Truthy(b.email)
  \/ ~Truthy(b.chat_date)
  \/ ~Truthy(b.chat_list)
  \/ ~IsArray(b.chat_list)

\* The validation of the request body.
InvalidBody(b) ==
  \/ ~Truthy(b.email)
  \/ ~Truthy(b.chat_date)
  \/ ~Truthy(b.chat_list)
  \/ ~IsArray(b.chat_list)
  \/ ~Truthy(b.input_token)
  \/ ~Truthy(b.output_token)

\* chat => ({...chat, date: chat.date ? new Date(chat.date) : new Date()})
ProcessChat(chat, now) ==
  [chat EXCEPT !.date = IF chat.date # "" THEN ParseDate(chat.date) ELSE now]

ProcessChatList(list, now) ==
  [i \in 1..Len(list) |-> ProcessChat(list[i], now)]

\* The handler from its entry to the first await: validate, parse the
\* date, process the messages and issue findOne.
UpdateChatStart(p, body, now) ==
  /\ req[p].pc = "idle"
  /\ nreq' = nreq + 1
  /\ IF InvalidBody(body) \/ NewDate(body.chat_date) = NaN
       THEN req' = [req EXCEPT ![p] =
              [IdleReq EXCEPT !.pc = "done", !.body = body, !.status = 400]]
       ELSE req' = [req EXCEPT ![p] =
              [pc |-> "findOne", body |-> body,
               parsedChatDate |-> NewDate(body.chat_date),
               processedChatList |-> ProcessChatList(body.chat_list.a, now),
               status |-> 0]]
  /\ UNCHANGED <<chats, applied, users, ureq, uapplied, nureq,
               readVars>>

\* findOne resolves: the handler takes the update or the create branch and
\* issues that store call.
FindOneResolve(p) ==
  /\ req[p].pc = "findOne"
  /\ req' = [req EXCEPT ![p].pc =
       IF FindOne(chats, req[p].body.email.s, req[p].parsedChatDate) # 0
         THEN "findOneAndUpdate" ELSE "save"]
  /\ UNCHANGED <<chats, applied, nreq, users, ureq, uapplied, nureq,
               readVars>>

\* The history of collection values, extended by a write that takes
\* effect while the report's reads are pending.
Seen(coll) == IF rreq.pc = "promiseAll" THEN snaps \cup {coll} ELSE snaps

\* Variant: the counters are set ($set) instead of incremented.
IncPush_SetTokens(doc, r) ==
  [doc EXCEPT !.input_token = r.body.input_token.n,
              !.output_token = r.body.output_token.n,
              !.chat_list = @ \o r.processedChatList]

\* Variant: the new messages go in front ($push with $position: 0).
IncPush_PushFront(doc, r) ==
  [doc EXCEPT !.input_token = @ + r.body.input_token.n,
              !.output_token = @ + r.body.output_token.n,
              !.chat_list = r.processedChatList \o @]

\* $inc of both counters and $push $each of the messages on one document.
IncPush(doc, r) ==
  [doc EXCEPT !.input_token = @ + r.body.input_token.n,
              !.output_token = @ + r.body.output_token.n,
              !.chat_list = @ \o r.processedChatList]

\* What a success adds to the history: the body of its request, as sent.
Write(r) == r.body

\* findOneAndUpdate (no upsert) resolves and the handler answers 200.
FindOneAndUpdateResolve(p) ==
  LET i == FindOne(chats, req[p].body.email.s, req[p].parsedChatDate) IN
  /\ req[p].pc = "findOneAndUpdate"
  /\ chats' = IF i # 0 THEN [chats EXCEPT ![i] = IncPush(@, req[p])] ELSE chats
  /\ applied' = Append(applied, Write(req[p]))
  /\ req' = [req EXCEPT ![p] = [IdleReq EXCEPT !.pc = "done", !.status = 200]]
  /\ snaps' = Seen(chats')
  /\ UNCHANGED <<nreq, users, ureq, uapplied, nureq, rreq, lreq, shown>>

\* Variant: the document is created without the token counts, which
\* then take the schema default.
NewDoc_NoTokens(r) ==
  [email |-> r.body.email.s, chat_date |-> r.parsedChatDate,
   chat_list |-> r.processedChatList,
   input_token |-> 0, output_token |-> 0]

\* new ChatHistory({...}) as it is inserted by save().
NewDoc(r) ==
  [email |-> r.body.email.s, chat_date |-> r.parsedChatDate,
   chat_list |-> r.processedChatList,
   input_token |-> r.body.input_token.n,
   output_token |-> r.body.output_token.n]

\* newDoc.save() resolves and the handler answers 201.
SaveResolve(p) ==
  /\ req[p].pc = "save"
  /\ chats' = Append(chats, NewDoc(req[p]))
  /\ applied' = Append(applied, Write(req[p]))
  /\ req' = [req EXCEPT ![p] = [IdleReq EXCEPT !.pc = "done", !.status = 201]]
  /\ snaps' = Seen(chats')
  /\ UNCHANGED <<nreq, users, ureq, uapplied, nureq, rreq, lreq, shown>>

\* Variant: no catch block; the rejection ends the task unanswered.
UpdateChatCatch_Unhandled(p) ==
  /\ req[p].pc \in {"findOne", "findOneAndUpdate", "save"}
  /\ req' = [req EXCEPT ![p] = [IdleReq EXCEPT !.pc = "crashed"]]
  /\ UNCHANGED <<chats, applied, nreq, users, ureq, uapplied, nureq,
               readVars>>

\* A pending store call rejects: the catch block answers 500.
UpdateChatCatch(p) ==
  /\ req[p].pc \in {"findOne", "findOneAndUpdate", "save"}
  /\ req' = [req EXCEPT ![p] = [IdleReq EXCEPT !.pc = "done", !.status = 500]]
  /\ UNCHANGED <<chats, applied, nreq, users, ureq, uapplied, nureq,
               readVars>>

\* The response has been sent; the task ends and the connection is free
\* for the next request.
UpdateChatEnd(p) ==
  /\ req[p].pc = "done"
  /\ req' = [req EXCEPT ![p] = IdleReq]
  /\ UNCHANGED <<chats, applied, nreq, users, ureq, uapplied, nureq,
               readVars>>

(* -------------------------- regist_user_info -------------------------- *)
UserEmails == {JsUndef, JsStr("a@x"), JsStr("b@x")}
UserNames == {JsStr(""), JsStr("Kim"), JsStr("Lee")}
LicenseNumbers == {JsUndef, JsStr("L-1")}

UserBodies ==
  [email : UserEmails, user_name : UserNames, license_number : LicenseNumbers]

\* Error codes a rejected store call may carry (11000: duplicate key).
ErrorCodes == {11000, 50}

\* The positions of the profiles with an email, and the first of them.
MatchingUsers(coll, email) == {i \in DOMAIN coll : coll[i].email = email}

FindUser(coll, email) ==
  IF MatchingUsers(coll, email) = {} THEN 0 ELSE Min(MatchingUsers(coll, email))

\* const { email, user_name, license_number = "" } = req.body
LicenseOrDefault(v) == IF v.t = "undefined" THEN JsStr("") ELSE v

\* The handler up to its await: destructure the body, validate and issue
\* the upsert.
RegistStart(p, body) ==
  /\ ureq[p].pc = "idle"
  /\ nureq' = nureq + 1
  /\ ureq' = [ureq EXCEPT ![p] =
       [pc |-> IF ~Truthy(body.email) \/ ~Truthy(body.user_name)
                 THEN "done" ELSE "findOneAndUpdate",
        body |-> body,
        email |-> body.email,
        user_name |-> body.user_name,
        license_number |-> LicenseOrDefault(body.license_number),
        status |-> IF ~Truthy(body.email) \/ ~Truthy(body.user_name)
                     THEN 400 ELSE 0]]
  /\ UNCHANGED <<users, uapplied, chats, req, applied, nreq,
               readVars>>

\* Variant: a plain insert (new UserInfo(body).save()) on every request.
UpsertUser_AlwaysInsert(coll, r) ==
  Append(coll, [email |-> r.email.s, user_name |-> r.user_name.s,
                license_number |-> r.license_number.s])

\* findOneAndUpdate({email}, {user_name, license_number}, {upsert: true}):
\* the first profile with the email is updated, or one is inserted.
UpsertUser(coll, r) ==
  IF FindUser(coll, r.email.s) # 0
    THEN [coll EXCEPT ![FindUser(coll, r.email.s)] =
            [@ EXCEPT !.user_name = r.user_name.s,
                      !.license_number = r.license_number.s]]
    ELSE Append(coll, [email |-> r.email.s, user_name |-> r.user_name.s,
                       license_number |-> r.license_number.s])

\* isNew of the document a query returns: it was loaded from the store,
\* so the flag is off whether or not the upsert inserted it.
UserIsNew(coll, r) == FALSE

\* The upsert resolves; the handler answers by user.isNew.
RegistResolve(p) ==
  /\ ureq[p].pc = "findOneAndUpdate"
  /\ users' = UpsertUser(users, ureq[p])
  /\ uapplied' = Append(uapplied, ureq[p].body)
  /\ ureq' = [ureq EXCEPT ![p] =
       [IdleUserReq EXCEPT !.pc = "done",
          !.status = IF UserIsNew(users, ureq[p]) THEN 201 ELSE 200]]
  /\ UNCHANGED <<nureq, chats, req, applied, nreq,
               readVars>>

\* The upsert rejects: 409 on a duplicate-key error, 500 otherwise.
RegistCatch(p, code) ==
  /\ ureq[p].pc = "findOneAndUpdate"
  /\ ureq' = [ureq EXCEPT ![p] =
       [IdleUserReq EXCEPT !.pc = "done",
          !.status = IF code = 11000 THEN 409 ELSE 500]]
  /\ UNCHANGED <<users, uapplied, nureq, chats, req, applied, nreq,
               readVars>>

\* The response has been sent; the task ends.
RegistEnd(p) ==
  /\ ureq[p].pc = "done"
  /\ ureq' = [ureq EXCEPT ![p] = IdleUserReq]
  /\ UNCHANGED <<users, uapplied, nureq, chats, req, applied, nreq,
               readVars>>

(* ------------------------ dates and time zone ------------------------- *)
\* Asia/Seoul is nine hours ahead of UTC all year; a day has 86400 seconds.
SeoulOffset == 32400
DaySeconds == 86400

\* utcToZonedTime(t, 'Asia/Seoul'): the date whose clock fields read the
\* Seoul wall time of instant t, as wall-clock seconds.
UtcToZonedTime(t) == IF t = NaN THEN NaN ELSE t + SeoulOffset

\* zonedTimeToUtc(w, 'Asia/Seoul'): the instant at which Seoul clocks read
\* the clock fields of w.
ZonedTimeToUtc(w) == IF w = NaN THEN NaN ELSE w - SeoulOffset

\* parse(s, 'yyyy-MM-dd', new Date()): midnight of the civil day, as
\* wall-clock seconds; an Invalid Date for any other text.
Parse(s) ==
  CASE s = "2024-01-01" -> 1704067200
    [] s = "2024-01-02" -> 1704153600
    [] s = "2024-01-03" -> 1704240000
    [] OTHER -> NaN

StartOfDay(w) == w - (w % DaySeconds)
EndOfDay(w) == StartOfDay(w) + DaySeconds - 1

\* subMonths(w, 1) for a wall time in January: the month before has 31
\* days (every modelled "now" lies in January 2024).
SubMonths(w) == w - 31 * DaySeconds

\* format(w, 'yyyy-MM-dd') and format(w, "yyyy-MM-dd'T'HH:mm:ssXXX") of a
\* wall time: the civil day number, and the day with the time of day.
FormatDay(w) == w \div DaySeconds
FormatDateTime(w) == [day |-> w \div DaySeconds, time |-> w % DaySeconds]

(* ------------------------- get-chat-histories ------------------------- *)
\* Destructuring defaults: page = 1, pageSize = 10.
DefaultPage == 1
DefaultPageSize == 10

PageOf(q) == IF q.page = JsUndef THEN JsNum(DefaultPage) ELSE q.page
PageSizeOf(q) == IF q.pageSize = JsUndef THEN JsNum(DefaultPageSize) ELSE q.pageSize

\* The number a query-string value is coerced to in arithmetic, and
\* parseInt of it (decimal digit strings only).
ToNumber(v) ==
  IF v.t = "number" THEN v.n
  ELSE CASE v.s = "1" -> 1 [] v.s = "2" -> 2 [] v.s = "3" -> 3 [] v.s = "4" -> 4

ParseInt(v) ==
  IF v.t = "number" THEN v.n
  ELSE CASE v.s = "1" -> 1 [] v.s = "2" -> 2 [] v.s = "3" -> 3 [] v.s = "4" -> 4

\* The window bounds the handler puts in startDate and endDate.
StartDateOf(q, now) ==
  IF Truthy(q.startDate)
    THEN ZonedTimeToUtc(Parse(q.startDate.s))
    ELSE ZonedTimeToUtc(StartOfDay(SubMonths(UtcToZonedTime(now))))

EndDateOf(q, now) ==
  IF Truthy(q.endDate)
    THEN ZonedTimeToUtc(Parse(q.endDate.s))
    ELSE ZonedTimeToUtc(EndOfDay(UtcToZonedTime(now)))

\* The query object: query.email is set from email and then replaced by
\* the $nin condition when exclusion applies.
BuildQuery(q, now) ==
  [email |->
     IF q.excludeAdminData = JsStr("true") /\ IsArray(q.adminEmails)
       THEN [op |-> "nin", eq |-> "", nin |-> Range(q.adminEmails.a)]
       ELSE IF Truthy(q.email)
              THEN [op |-> "eq", eq |-> q.email.s, nin |-> {}]
              ELSE [op |-> "any", eq |-> "", nin |-> {}],
   gte |-> StartDateOf(q, now),
   lte |-> EndDateOf(q, now)]

\* Casting the filter: an Invalid Date bound makes find and
\* countDocuments reject before they reach the store.
CastOk(query) == query.gte # NaN /\ query.lte # NaN

Matches(doc, query) ==
  /\ CASE query.email.op = "eq" -> doc.email = query.email.eq
       [] query.email.op = "nin" -> doc.email \notin query.email.nin
       [] OTHER -> TRUE
  /\ doc.chat_date >= query.gte
  /\ doc.chat_date <= query.lte

MatchingDocs(coll, query) == {i \in DOMAIN coll : Matches(coll[i], query)}

\* sort({chat_date: -1}): every order of the matching documents with
\* chat_date descending; the store fixes no order among equal dates.
DescOrders(coll, S) ==
  {o \in [1..Cardinality(S) -> S] :
     /\ \A i, j \in DOMAIN o : i # j => o[i] # o[j]
     /\ \A i, j \in DOMAIN o : i < j => coll[o[i]].chat_date >= coll[o[j]].chat_date}

\* skip(n).limit(m) of an ordered result.
SkipLimit(order, n, m) ==
  SubSeq(order, n + 1, IF n + m < Len(order) THEN n + m ELSE Len(order))

\* select('email chat_date input_token output_token').lean(): the four
\* fields and the _id, which a projection keeps unless told otherwise.
Select(coll, i) ==
  [_id |-> i, email |-> coll[i].email, chat_date |-> coll[i].chat_date,
   input_token |-> coll[i].input_token, output_token |-> coll[i].output_token]

\* $group with $sum of a field over a set of documents.
RECURSIVE GroupSum(_, _, _)
GroupSum(coll, S, field) ==
  IF S = {} THEN 0
  ELSE LET i == Min(S) IN coll[i][field] + GroupSum(coll, S \ {i}, field)

\* Variant: the pipeline without its $match stage.
Aggregate_NoMatch(coll, query) ==
  IF DOMAIN coll = {} THEN <<>>
  ELSE <<[totalInputTokens |-> GroupSum(coll, DOMAIN coll, "input_token"),
          totalOutputTokens |-> GroupSum(coll, DOMAIN coll, "output_token")]>>

\* aggregate([{$match: query}, {$group: ...}]): one group, or none when
\* nothing matches.
Aggregate(coll, query) ==
  IF MatchingDocs(coll, query) = {} THEN <<>>
  ELSE <<[totalInputTokens |->
            GroupSum(coll, MatchingDocs(coll, query), "input_token"),
          totalOutputTokens |->
            GroupSum(coll, MatchingDocs(coll, query), "output_token")]>>

\* Math.ceil(a / b) for b > 0.
Ceil(a, b) == (a + b - 1) \div b

\* The JSON answer built from the three results.
Response(r) ==
  [data |-> [k \in DOMAIN r.results |->
               [r.results[k] EXCEPT
                  !.chat_date = FormatDateTime(UtcToZonedTime(@))]],
   currentPage |-> ParseInt(PageOf(r.q)),
   totalPages |-> Ceil(r.totalCount, ToNumber(PageSizeOf(r.q))),
   totalCount |-> r.totalCount,
   totalInputTokens |->
     IF r.totalTokens = <<>> THEN 0 ELSE r.totalTokens[1].totalInputTokens,
   totalOutputTokens |->
     IF r.totalTokens = <<>> THEN 0 ELSE r.totalTokens[1].totalOutputTokens,
   startDate |-> FormatDay(UtcToZonedTime(r.query.gte)),
   endDate |-> FormatDay(UtcToZonedTime(r.query.lte))]

\* Promise.all: once all three results are in, the handler answers 200.
Settle(r) ==
  IF r.got = {"find", "count", "aggregate"}
    THEN [r EXCEPT !.pc = "done", !.status = 200, !.res = Response(r)]
    ELSE r

\* What the pages of one report have shown: the pages of the same query
\* (page aside) are collected, another query starts afresh.
Show(r) ==
  LET base == [r.q EXCEPT !.page = JsUndef]
      n == ParseInt(PageOf(r.q))
      ids == {r.results[k]._id : k \in DOMAIN r.results}
      kept == IF shown.q = base
                THEN {pg \in shown.pages : pg[1] # n} ELSE {}
  IN IF r.pc = "done" /\ r.status = 200
       THEN [q |-> base, pages |-> kept \cup {<<n, ids>>}]
       ELSE shown

\* The handler up to Promise.all: the filter is built and the three
\* store calls are issued.
GetChatHistoriesStart(q, now) ==
  /\ rreq.pc = "idle"
  /\ rreq' = [IdleReport EXCEPT
                !.pc = "promiseAll", !.q = q, !.query = BuildQuery(q, now),
                !.skip = (ToNumber(PageOf(q)) - 1) * ToNumber(PageSizeOf(q)),
                !.limit = ParseInt(PageSizeOf(q))]
  /\ snaps' = {chats}
  /\ shown' = IF shown.q = [q EXCEPT !.page = JsUndef] THEN shown ELSE NothingShown
  /\ UNCHANGED <<chats, users, req, ureq, applied, uapplied, nreq, nureq, lreq>>

\* find(query).sort().skip().limit().select().lean() resolves.
FindResolve ==
  /\ rreq.pc = "promiseAll"
  /\ "find" \notin rreq.got
  /\ CastOk(rreq.query)
  /\ \E order \in DescOrders(chats, MatchingDocs(chats, rreq.query)) :
       LET page == SkipLimit(order, rreq.skip, rreq.limit) IN
       rreq' = Settle([rreq EXCEPT
                  !.got = @ \cup {"find"},
                  !.results = [k \in DOMAIN page |-> Select(chats, page[k])]])
  /\ shown' = Show(rreq')
  /\ UNCHANGED <<chats, users, req, ureq, applied, uapplied, nreq, nureq,
                 lreq, snaps>>

\* Variant: the count of the whole collection, whatever the query.
CountResolve_NoQuery ==
  /\ rreq.pc = "promiseAll"
  /\ "count" \notin rreq.got
  /\ CastOk(rreq.query)
  /\ rreq' = Settle([rreq EXCEPT
                !.got = @ \cup {"count"}, !.totalCount = Len(chats)])
  /\ shown' = Show(rreq')
  /\ UNCHANGED <<chats, users, req, ureq, applied, uapplied, nreq, nureq,
                 lreq, snaps>>

\* countDocuments(query) resolves.
CountResolve ==
  /\ rreq.pc = "promiseAll"
  /\ "count" \notin rreq.got
  /\ CastOk(rreq.query)
  /\ rreq' = Settle([rreq EXCEPT
                !.got = @ \cup {"count"},
                !.totalCount = Cardinality(MatchingDocs(chats, rreq.query))])
  /\ shown' = Show(rreq')
  /\ UNCHANGED <<chats, users, req, ureq, applied, uapplied, nreq, nureq,
                 lreq, snaps>>

\* aggregate([...]) resolves.
AggregateResolve ==
  /\ rreq.pc = "promiseAll"
  /\ "aggregate" \notin rreq.got
  /\ CastOk(rreq.query)
  /\ rreq' = Settle([rreq EXCEPT
                !.got = @ \cup {"aggregate"},
                !.totalTokens = Aggregate(chats, rreq.query)])
  /\ shown' = Show(rreq')
  /\ UNCHANGED <<chats, users, req, ureq, applied, uapplied, nreq, nureq,
                 lreq, snaps>>

\* One of the three calls rejects (a cast error of the filter, or a store
\* failure): Promise.all rejects and the catch block answers 500.
GetChatHistoriesCatch ==
  /\ rreq.pc = "promiseAll"
  /\ rreq' = [IdleReport EXCEPT !.pc = "done", !.q = rreq.q, !.status = 500]
  /\ UNCHANGED <<chats, users, req, ureq, applied, uapplied, nreq, nureq,
                 lreq, snaps, shown>>

\* The response has been sent; the task ends.
GetChatHistoriesEnd ==
  /\ rreq.pc = "done"
  /\ rreq' = IdleReport
  /\ snaps' = {}
  /\ UNCHANGED <<chats, users, req, ureq, applied, uapplied, nreq, nureq,
                 lreq, shown>>

(* --------------------------- get-chat-list ---------------------------- *)
\* The handler up to its await: findById(req.params.id) is issued.
GetChatListStart(id) ==
  /\ lreq.pc = "idle"
  /\ lreq' = [IdleList EXCEPT !.pc = "findById", !.id = id]
  /\ UNCHANGED <<chats, users, req, ureq, applied, uapplied, nreq, nureq,
                 rreq, snaps, shown>>

\* findById resolves with the document or null: 200 with its chat_list,
\* or 404.  An id that is no ObjectId never gets here: its cast rejects.
FindByIdResolve ==
  /\ lreq.pc = "findById"
  /\ lreq.id.wellFormed
  /\ lreq' = IF lreq.id.oid \in DOMAIN chats
               THEN [lreq EXCEPT !.pc = "done", !.status = 200,
                                 !.res = chats[lreq.id.oid].chat_list]
               ELSE [lreq EXCEPT !.pc = "done", !.status = 404]
  /\ UNCHANGED <<chats, users, req, ureq, applied, uapplied, nreq, nureq,
                 rreq, snaps, shown>>

\* findById rejects and the catch block answers 500: with a CastError
\* when the id is no ObjectId, or because the store call failed.
GetChatListCatch(error) ==
  /\ lreq.pc = "findById"
  /\ error = "CastError" <=> ~lreq.id.wellFormed
  /\ lreq' = [lreq EXCEPT !.pc = "done", !.status = 500, !.error = error]
  /\ UNCHANGED <<chats, users, req, ureq, applied, uapplied, nreq, nureq,
                 rreq, snaps, shown>>

\* The response has been sent; the task ends.
GetChatListEnd ==
  /\ lreq.pc = "done"
  /\ lreq' = IdleList
  /\ UNCHANGED <<chats, users, req, ureq, applied, uapplied, nreq, nureq,
                 rreq, snaps, shown>>

(* ------------------------- stored collections ------------------------- *)
\* Documents as update-chat leaves them: two users on one day, one of
\* them also on the next day, and a third user.
DocPool ==
  << [email |-> "a@x", chat_date |-> ParseDate("2024-01-01"),
      chat_list |-> <<ProcessChat(m1, 1704100000)>>,
      input_token |-> 2, output_token |-> 1],
     [email |-> "b@x", chat_date |-> ParseDate("2024-01-01"),
      chat_list |-> <<ProcessChat(m2, 1704100000)>>,
      input_token |-> 5, output_token |-> 3],
     [email |-> "a@x", chat_date |-> ParseDate("2024-01-02"),
      chat_list |-> <<ProcessChat(m1, 1704100000), ProcessChat(m2, 1704100000)>>,
      input_token |-> 7, output_token |-> 4],
     [email |-> "c@x", chat_date |-> ParseDate("2024-01-01"),
      chat_list |-> <<>>,
      input_token |-> 1, output_token |-> 1] >>

RECURSIVE PoolDocs(_)
PoolDocs(S) ==
  IF S = {} THEN <<>> ELSE <<DocPool[Min(S)]>> \o PoolDocs(S \ {Min(S)})

\* The collections the read endpoints are run against.
StoredCollections ==
  {PoolDocs(S) : S \in {T \in SUBSET DOMAIN DocPool : Cardinality(T) <= MaxDocs}}

\* A running server whose store already holds chat records.
StoreInit ==
  /\ chats \in StoredCollections
  /\ users = <<>>
  /\ NoRequests

\* The ids a client may ask the chat list of: the ids of stored records,
\* ids of no record, and text that is no record id.
ParamIds ==
  {[wellFormed |-> TRUE, oid |-> n] : n \in 1..(MaxDocs + 1)}
    \cup {[wellFormed |-> FALSE, oid |-> 0]}

ErrorKinds == {"CastError", "store"}

\* Query strings of reports that differ in their filter: an email or
\* none, day texts or none for the window (one of them no date), and an
\* exclusion list sent once (a string) or repeated (an array).
DayTexts == {JsUndef, JsStr("2024-01-01"), JsStr("2024-01-02"), JsStr("bad")}

FilterQueries ==
  {[NoQuery EXCEPT !.email = e, !.startDate = sd, !.endDate = ed,
                   !.excludeAdminData = x, !.adminEmails = ae] :
     e \in {JsUndef, JsStr("a@x")}, sd \in DayTexts, ed \in DayTexts,
     x \in {JsUndef, JsStr("true")},
     ae \in {JsStr("b@x"), JsArr(<<"b@x">>)}}

\* Query strings of reports that differ in their page: the first or the
\* second page, of ten (the default) or of two records; the window is
\* the default one, which ends with today (Seoul).
PageQueries ==
  {[NoQuery EXCEPT !.page = pg, !.pageSize = sz, !.email = e] :
     pg \in {JsUndef, JsStr("1"), JsStr("2")},
     sz \in {JsUndef, JsStr("2")},
     e \in {JsUndef, JsStr("a@x")}}

\* Query strings of the reports that run while chats are written.
RaceQueries == {NoQuery, [NoQuery EXCEPT !.email = JsStr("a@x")]}

(* --------------------------- specifications --------------------------- *)
\* A PUT /api/update-chat arrives on connection p.
UpdateChat(p) ==
  \E body \in ConcChatBodies, now \in NowValues :
     nreq < MaxReqs /\ UpdateChatStart(p, body, now)

\* A PUT /api/update-chat arrives from the one client that sends its
\* requests one after another.
UpdateChatInTurn ==
  \E body \in AllChatBodies, now \in NowValues :
     nreq < MaxSeqReqs /\ UpdateChatStart(1, body, now)

\* A POST /api/regist_user_info arrives on connection p.
RegistUserInfo(p) ==
  \E body \in UserBodies : nureq < MaxUserReqs /\ RegistStart(p, body)

\* A write request of either kind arrives while others may be pending.
WriteUpdateChat(p) ==
  \E body \in ConcChatBodies, now \in NowValues :
     nreq + nureq < MaxWriteReqs /\ UpdateChatStart(p, body, now)

WriteRegistUserInfo(p) ==
  \E body \in UserBodies :
     nreq + nureq < MaxWriteReqs /\ RegistStart(p, body)

\* Overlapping update-chat requests.
Next ==
  \/ \E p \in Procs : UpdateChat(p)
  \/ \E p \in Procs : FindOneResolve(p)
  \/ \E p \in Procs : FindOneAndUpdateResolve(p)
  \/ \E p \in Procs : SaveResolve(p)
  \/ \E p \in Procs : UpdateChatCatch(p)
  \/ \E p \in Procs : UpdateChatEnd(p)

Spec == Init /\ [][Next]_vars

\* update-chat requests one after another, over every body.
SeqNext ==
  \/ UpdateChatInTurn
  \/ FindOneResolve(1)
  \/ FindOneAndUpdateResolve(1)
  \/ SaveResolve(1)
  \/ UpdateChatCatch(1)
  \/ UpdateChatEnd(1)

SeqSpec == Init /\ [][SeqNext]_vars

\* Overlapping regist_user_info requests.
UserNext ==
  \/ \E p \in UserProcs : RegistUserInfo(p)
  \/ \E p \in UserProcs : RegistResolve(p)
  \/ \E p \in UserProcs, code \in ErrorCodes : RegistCatch(p, code)
  \/ \E p \in UserProcs : RegistEnd(p)

UserSpec == Init /\ [][UserNext]_vars

\* Overlapping write requests of both kinds.
WriteNext ==
  \/ \E p \in Procs : WriteUpdateChat(p)
  \/ \E p \in Procs : FindOneResolve(p)
  \/ \E p \in Procs : FindOneAndUpdateResolve(p)
  \/ \E p \in Procs : SaveResolve(p)
  \/ \E p \in Procs : UpdateChatCatch(p)
  \/ \E p \in Procs : UpdateChatEnd(p)
  \/ \E p \in UserProcs : WriteRegistUserInfo(p)
  \/ \E p \in UserProcs : RegistResolve(p)
  \/ \E p \in UserProcs, code \in ErrorCodes : RegistCatch(p, code)
  \/ \E p \in UserProcs : RegistEnd(p)

WriteSpec == Init /\ [][WriteNext]_vars

\* get-chat-list requests against a stored collection.
ListNext ==
  \/ \E id \in ParamIds : GetChatListStart(id)
  \/ FindByIdResolve
  \/ \E error \in ErrorKinds : GetChatListCatch(error)
  \/ GetChatListEnd

ListSpec == StoreInit /\ [][ListNext]_vars

\* Reports with varying filters against a stored collection.
FilterNext ==
  \/ \E q \in FilterQueries, now \in NowValues : GetChatHistoriesStart(q, now)
  \/ FindResolve
  \/ CountResolve
  \/ AggregateResolve
  \/ GetChatHistoriesCatch
  \/ GetChatHistoriesEnd

FilterSpec == StoreInit /\ [][FilterNext]_vars

\* Reports page by page against a stored collection.
PageNext ==
  \/ \E q \in PageQueries, now \in NowValues : GetChatHistoriesStart(q, now)
  \/ FindResolve
  \/ CountResolve
  \/ AggregateResolve
  \/ GetChatHistoriesCatch
  \/ GetChatHistoriesEnd

PageSpec == StoreInit /\ [][PageNext]_vars

\* A PUT /api/update-chat arrives while a report may be running.
RaceUpdateChat ==
  \E body \in ConcChatBodies, now \in NowValues :
     nreq < MaxRaceReqs /\ UpdateChatStart(1, body, now)

\* Reports running while update-chat requests write.
RaceNext ==
  \/ RaceUpdateChat
  \/ FindOneResolve(1)
  \/ FindOneAndUpdateResolve(1)
  \/ SaveResolve(1)
  \/ UpdateChatCatch(1)
  \/ UpdateChatEnd(1)
  \/ \E q \in RaceQueries, now \in NowValues : GetChatHistoriesStart(q, now)
  \/ FindResolve
  \/ CountResolve
  \/ AggregateResolve
  \/ GetChatHistoriesCatch
  \/ GetChatHistoriesEnd

RaceSpec == Init /\ [][RaceNext]_vars

(* ------------------------- history arithmetic ------------------------- *)
\* The applied update-chat bodies addressed to one (email, instant) key.
AppliedFor(e, d) ==
  SelectSeq(applied, LAMBDA b : b.email.s = e /\ ParseDate(b.chat_date.s) = d)

RECURSIVE SumInput(_)
SumInput(bs) ==
  IF bs = <<>> THEN 0 ELSE bs[1].input_token.n + SumInput(Tail(bs))

RECURSIVE SumOutput(_)
SumOutput(bs) ==
  IF bs = <<>> THEN 0 ELSE bs[1].output_token.n + SumOutput(Tail(bs))

\* The messages of a sequence of bodies, as sent, in request order.
RECURSIVE SentMessages(_)
SentMessages(bs) ==
  IF bs = <<>> THEN <<>> ELSE bs[1].chat_list.a \o SentMessages(Tail(bs))

\* A stored message is the sent one: same sender and text, the supplied
\* date as an instant, or a current instant when none was supplied.
StoredAs(stored, sent) ==
  /\ stored.sender = sent.sender
  /\ stored.message = sent.message
  /\ IF sent.date # "" THEN stored.date = ParseDate(sent.date)
                       ELSE stored.date \in NowValues

(* ------------------------------ claims -------------------------------- *)

\* C1: the store never holds two ChatRecords with the same (email,
\* chat_date); once an update-chat for a key has succeeded exactly one
\* record for that key exists.
C1_OneRecordPerKey ==
  /\ \A i, j \in DOMAIN chats :
        (chats[i].email = chats[j].email /\ chats[i].chat_date = chats[j].chat_date)
          => i = j
  /\ \A b \in Range(applied) :
        Cardinality(Matching(chats, b.email.s, ParseDate(b.chat_date.s))) = 1

\* C2: after update-chat requests for a key have succeeded, overlapping or
\* not, the record found for the key holds the sum of all their token
\* deltas and every message of each of them.
C2_NoLostUpdate ==
  \A b \in Range(applied) :
    LET e == b.email.s
        d == ParseDate(b.chat_date.s)
        i == FindOne(chats, e, d)
    IN /\ i # 0
       /\ chats[i].input_token = SumInput(AppliedFor(e, d))
       /\ chats[i].output_token = SumOutput(AppliedFor(e, d))
       /\ \A k \in DOMAIN b.chat_list.a :
            \E j \in DOMAIN chats[i].chat_list :
               StoredAs(chats[i].chat_list[j], b.chat_list.a[k])

\* C3: find-or-create-and-merge is one atomic store operation: while a
\* request stands between its observation of the key and its write, the
\* collection does not change.
C3_AtomicFindAndWrite ==
  [][\A p \in Procs :
        (req[p].pc \in {"findOneAndUpdate", "save"} /\ req'[p].pc = req[p].pc)
          => chats' = chats]_vars

\* C4: update-chat requests for one key run one after another leave a
\* single record for the key, whose counters are the sums of the deltas
\* and whose chat_list is the concatenation of the message lists in
\* request order.
C4_Accumulation ==
  \A b \in Range(applied) :
    LET e == b.email.s
        d == ParseDate(b.chat_date.s)
        i == FindOne(chats, e, d)
        sent == SentMessages(AppliedFor(e, d))
    IN /\ Cardinality(Matching(chats, e, d)) = 1
       /\ chats[i].input_token = SumInput(AppliedFor(e, d))
       /\ chats[i].output_token = SumOutput(AppliedFor(e, d))
       /\ Len(chats[i].chat_list) = Len(sent)
       /\ \A k \in DOMAIN sent : StoredAs(chats[i].chat_list[k], sent[k])

\* C4 witness: a key that two requests with different messages were
\* applied to, the second merged into the record of the first.
C4_Witness ==
  \E e \in {"a@x", "b@x"} :
    /\ Len(AppliedFor(e, 1704067200)) = 2
    /\ AppliedFor(e, 1704067200)[1].chat_list.a = <<m1>>
    /\ AppliedFor(e, 1704067200)[2].chat_list.a = <<m2>>
    /\ req[1].pc = "done" /\ req[1].status = 200

\* C5: every record's counters are non-negative, and no accepted
\* update-chat request makes a counter of an existing record decrease.
C5_NonNegativeMonotone ==
  [][/\ \A i \in DOMAIN chats' :
          chats'[i].input_token >= 0 /\ chats'[i].output_token >= 0
     /\ \A i \in DOMAIN chats :
          /\ i \in DOMAIN chats'
          /\ chats'[i].input_token >= chats[i].input_token
          /\ chats'[i].output_token >= chats[i].output_token]_vars

\* C6: chat_list is append-only: across every step each record keeps its
\* key and its chat_list is a prefix of its chat_list after the step.
C6_AppendOnly ==
  [][\A i \in DOMAIN chats :
        /\ i \in DOMAIN chats'
        /\ chats'[i].email = chats[i].email
        /\ chats'[i].chat_date = chats[i].chat_date
        /\ Len(chats[i].chat_list) <= Len(chats'[i].chat_list)
        /\ SubSeq(chats'[i].chat_list, 1, Len(chats[i].chat_list))
             = chats[i].chat_list]_vars

\* C6 witness: a record that an update appended to, answered 200.
C6_Witness ==
  \E i \in DOMAIN chats, p \in Procs :
    /\ Len(chats[i].chat_list) >= 2
    /\ Len(AppliedFor(chats[i].email, chats[i].chat_date)) >= 2
    /\ req[p].pc = "done" /\ req[p].status = 200

\* A body the validation has to refuse, in the words of the contract.
C7_MustReject(b) ==
  \/ b.email \in {JsUndef, JsStr("")}
  \/ b.chat_date \in {JsUndef, JsStr("")}
  \/ b.chat_list.t # "array"
  \/ b.input_token \in {JsUndef, JsNum(0)}
  \/ b.output_token \in {JsUndef, JsNum(0)}
  \/ ParseDate(b.chat_date.s) = NaN

\* C7: an update-chat request that fails validation is answered 400 at
\* once, and neither then nor later issues a store operation: the
\* collection is unchanged and the task only ends.
C7_RejectedNoStoreOp ==
  [][\A p \in Procs :
        /\ (req[p].pc = "idle" /\ req'[p].pc # "idle" /\ C7_MustReject(req'[p].body))
             => (req'[p].pc = "done" /\ req'[p].status = 400 /\ chats' = chats)
        /\ (req[p].pc = "done" /\ req[p].status = 400)
             => (req'[p].pc \in {"done", "idle"} /\ chats' = chats)]_vars

\* C7 witness: a request refused with 400 while the store holds a record.
C7_Witness ==
  /\ req[1].pc = "done" /\ req[1].status = 400
  /\ C7_MustReject(req[1].body)
  /\ chats # <<>>

\* C8: a successful update-chat answers 201 exactly when no record for
\* its key existed as its write took effect, and 200 exactly when one did.
C8_StatusMatchesWrite ==
  [][\A p \in Procs :
        (req[p].pc \in {"findOneAndUpdate", "save"} /\ req'[p].status \in {200, 201})
          => (req'[p].status = 201
                <=> Matching(chats, req[p].body.email.s,
                             ParseDate(req[p].body.chat_date.s)) = {})]_vars

\* C9: regist_user_info answers 400 when email or user_name is missing,
\* 201 when its upsert created the profile and 200 when it updated one.
C9_RegistStatus ==
  [][\A p \in UserProcs :
        /\ (/\ ureq[p].pc = "idle" /\ ureq'[p].pc # "idle"
            /\ \/ ureq'[p].body.email \in {JsUndef, JsStr("")}
               \/ ureq'[p].body.user_name \in {JsUndef, JsStr("")})
             => ureq'[p].status = 400
        /\ (ureq[p].pc = "findOneAndUpdate" /\ ureq'[p].status \in {200, 201})
             => ureq'[p].status =
                  IF MatchingUsers(users, ureq[p].body.email.s) = {}
                    THEN 201 ELSE 200]_vars

\* The last applied registration for an email (0 when there is none).
LastRegistration(e) ==
  IF \E k \in DOMAIN uapplied : uapplied[k].email.s = e
    THEN CHOOSE k \in DOMAIN uapplied :
           /\ uapplied[k].email.s = e
           /\ \A j \in DOMAIN uapplied : uapplied[j].email.s = e => j <= k
    ELSE 0

\* C10: there is at most one profile per email, and it carries the
\* user_name and license_number ("" when none was sent) of the most
\* recent successful registration for that email.
C10_OneProfileLatestValues ==
  \A e \in {"a@x", "b@x"} :
    /\ Cardinality(MatchingUsers(users, e)) <= 1
    /\ LastRegistration(e) # 0 =>
         LET b == uapplied[LastRegistration(e)]
             u == users[FindUser(users, e)]
         IN /\ FindUser(users, e) # 0
            /\ u.user_name = b.user_name.s
            /\ u.license_number =
                 IF b.license_number = JsUndef THEN "" ELSE b.license_number.s

\* C10 witness: an email registered twice, with different names and
\* licenses, the second time as an update.
C10_Witness ==
  \E j, k \in DOMAIN uapplied :
    /\ j < k
    /\ uapplied[j].email.s = uapplied[k].email.s
    /\ uapplied[j].user_name # uapplied[k].user_name
    /\ uapplied[j].license_number = JsStr("L-1")
    /\ uapplied[k].license_number = JsUndef
    /\ k = LastRegistration(uapplied[k].email.s)

\* The counters and the messages of a set of documents of chats, summed.
RECURSIVE StoredInput(_)
StoredInput(S) ==
  IF S = {} THEN 0
  ELSE LET i == Min(S) IN chats[i].input_token + StoredInput(S \ {i})

RECURSIVE StoredOutput(_)
StoredOutput(S) ==
  IF S = {} THEN 0
  ELSE LET i == Min(S) IN chats[i].output_token + StoredOutput(S \ {i})

RECURSIVE StoredMessages(_)
StoredMessages(S) ==
  IF S = {} THEN <<>>
  ELSE LET i == Min(S) IN chats[i].chat_list \o StoredMessages(S \ {i})

\* C18: for every key, over all records stored with the key, the counters
\* sum to the deltas of the requests answered 200 or 201 for the key, and
\* the stored messages are, as a multiset, the messages of those requests.
C18_Conservation ==
  \A b \in Range(applied) :
    LET e == b.email.s
        d == ParseDate(b.chat_date.s)
        S == Matching(chats, e, d)
        sent == SentMessages(AppliedFor(e, d))
        stored == StoredMessages(S)
    IN /\ StoredInput(S) = SumInput(AppliedFor(e, d))
       /\ StoredOutput(S) = SumOutput(AppliedFor(e, d))
       /\ Len(stored) = Len(sent)
       /\ \A k \in DOMAIN sent :
            Cardinality({j \in DOMAIN stored : StoredAs(stored[j], sent[k])})
              = Cardinality({j \in DOMAIN sent : sent[j] = sent[k]})

\* C18 witness: a key that overlapping requests made two records for,
\* and whose first record a later request was merged into.
C18_Witness ==
  \E e \in {"a@x", "b@x"} :
    /\ Cardinality(Matching(chats, e, 1704067200)) = 2
    /\ Len(AppliedFor(e, 1704067200)) = 3

\* The collection after one complete update-chat write of request r: a
\* whole new document, or one document with both counters raised and all
\* the messages appended.
C15_CompleteChatWrite(r) ==
  \/ /\ Len(chats') = Len(chats) + 1
     /\ SubSeq(chats', 1, Len(chats)) = chats
     /\ LET doc == chats'[Len(chats')]
        IN /\ doc.email = r.body.email.s
           /\ doc.input_token = r.body.input_token.n
           /\ doc.output_token = r.body.output_token.n
           /\ Len(doc.chat_list) = Len(r.body.chat_list.a)
  \/ /\ Len(chats') = Len(chats)
     /\ \E i \in DOMAIN chats :
          /\ \A j \in DOMAIN chats : j # i => chats'[j] = chats[j]
          /\ chats'[i].input_token = chats[i].input_token + r.body.input_token.n
          /\ chats'[i].output_token = chats[i].output_token + r.body.output_token.n
          /\ Len(chats'[i].chat_list)
               = Len(chats[i].chat_list) + Len(r.body.chat_list.a)

\* The collection after one complete upsert of registration r.
C15_CompleteUserWrite(r) ==
  \E i \in DOMAIN users' :
    /\ \A j \in DOMAIN users : j # i => users'[j] = users[j]
    /\ Len(users') = IF i \in DOMAIN users THEN Len(users) ELSE Len(users) + 1
    /\ users'[i].email = r.body.email.s
    /\ users'[i].user_name = r.body.user_name.s
    /\ users'[i].license_number =
         IF r.body.license_number = JsUndef THEN "" ELSE r.body.license_number.s

\* C15: a write request whose store call fails is answered with an error
\* status (500 for update-chat, 409 or 500 for regist_user_info) and that
\* step leaves the store as it was; the store only ever changes by one
\* complete write of one pending request.
C15_FailureNoPartialWrite ==
  [][/\ \A p \in Procs :
          /\ (/\ req[p].pc \in {"findOne", "findOneAndUpdate", "save"}
              /\ req'[p].pc \notin {"findOne", "findOneAndUpdate", "save"})
               => (req'[p].pc = "done" /\ req'[p].status \in {200, 201, 500})
          /\ (req[p].pc # "done" /\ req'[p].status = 500)
               => (chats' = chats /\ users' = users)
     /\ \A p \in UserProcs :
          /\ (ureq[p].pc = "findOneAndUpdate" /\ ureq'[p].pc # "findOneAndUpdate")
               => (ureq'[p].pc = "done" /\ ureq'[p].status \in {200, 201, 409, 500})
          /\ (ureq[p].pc # "done" /\ ureq'[p].status \in {409, 500})
               => (chats' = chats /\ users' = users)
     /\ chats' # chats =>
          \E p \in Procs :
            /\ req[p].pc \in {"findOneAndUpdate", "save"}
            /\ req'[p].status \in {200, 201}
            /\ C15_CompleteChatWrite(req[p])
     /\ users' # users =>
          \E p \in UserProcs :
            /\ ureq[p].pc = "findOneAndUpdate"
            /\ ureq'[p].status \in {200, 201}
            /\ C15_CompleteUserWrite(ureq[p])]_vars

\* C15 witness: an update-chat and a registration have both failed at
\* their store call and were answered 500 and 409.
C15_Witness ==
  /\ \E p \in Procs : req[p].pc = "done" /\ req[p].status = 500
  /\ \E p \in UserProcs : ureq[p].pc = "done" /\ ureq[p].status = 409

\* C14: unless the store call itself fails, get-chat-list answers 404 for
\* every id that matches no stored record, well-formed or not, and 200
\* with exactly the record's chat_list for an id that matches one.
C14_UnknownIdIs404 ==
  [][(lreq.pc = "findById" /\ lreq'.pc = "done" /\ lreq'.error # "store")
       => IF lreq.id.wellFormed /\ lreq.id.oid \in DOMAIN chats
            THEN lreq'.status = 200 /\ lreq'.res = chats[lreq.id.oid].chat_list
            ELSE lreq'.status = 404]_vars

\* The filter parts a request asks for.
ExclusionApplied(q) == q.excludeAdminData = JsStr("true") /\ IsArray(q.adminEmails)

MalformedDate(v) == Truthy(v) /\ Parse(v.s) = NaN

Answered200 == rreq.pc = "done" /\ rreq.status = 200

\* C12: with an endDate, every record of the endDate civil day (Seoul)
\* that meets the rest of the filter is in the filtered set: the count
\* is that of the filter with the end of that day as upper bound.
C12_EndDateWholeDay ==
  (Answered200 /\ Truthy(rreq.q.endDate))
    => rreq.res.totalCount =
         Cardinality(MatchingDocs(chats,
           [rreq.query EXCEPT
              !.lte = ZonedTimeToUtc(EndOfDay(Parse(rreq.q.endDate.s)))]))

\* C13: a report whose startDate or endDate is no date is answered 400.
C13_MalformedDateIs400 ==
  (rreq.pc = "done"
     /\ (MalformedDate(rreq.q.startDate) \/ MalformedDate(rreq.q.endDate)))
    => rreq.status = 400

\* C16: every record on the page and in the count lies in the window,
\* has the email asked for when one is given, and has an email outside
\* the exclusion list when exclusion applies.
C16_Wanted(doc) ==
  /\ doc.chat_date >= rreq.query.gte
  /\ doc.chat_date <= rreq.query.lte
  /\ Truthy(rreq.q.email) => doc.email = rreq.q.email.s
  /\ ExclusionApplied(rreq.q) => doc.email \notin Range(rreq.q.adminEmails.a)

C16_FilterConjunction ==
  Answered200
    => /\ \A k \in DOMAIN rreq.results : C16_Wanted(chats[rreq.results[k]._id])
       /\ rreq.res.totalCount =
            Cardinality({i \in DOMAIN chats : C16_Wanted(chats[i])})

\* C11: against an unchanging store, totalCount is the number of records
\* matching the filter, totalPages is ceil(totalCount / pageSize), and
\* the token totals are the sums over all matching records.
C11_Totals ==
  Answered200
    => LET S == MatchingDocs(chats, rreq.query) IN
       /\ rreq.res.totalCount = Cardinality(S)
       /\ rreq.res.totalPages * ToNumber(PageSizeOf(rreq.q)) >= Cardinality(S)
       /\ (rreq.res.totalPages - 1) * ToNumber(PageSizeOf(rreq.q)) < Cardinality(S)
       /\ rreq.res.totalInputTokens = GroupSum(chats, S, "input_token")
       /\ rreq.res.totalOutputTokens = GroupSum(chats, S, "output_token")

\* A filtered set larger than the page and smaller than the store.
C11_Witness ==
  /\ Answered200
  /\ rreq.res.totalPages = 2
  /\ Len(rreq.res.data) < rreq.res.totalCount
  /\ rreq.res.totalCount < Len(chats)
  /\ rreq.res.totalInputTokens >
       GroupSum(chats, {rreq.results[k]._id : k \in DOMAIN rreq.results},
                "input_token")

\* C17: against an unchanging store the page is the slice of the
\* filtered set in chat_date descending order from (page-1)*pageSize, of
\* at most pageSize records, with the four summary fields and no
\* chat_list; and pages 1..totalPages together hold every matching record.
C17_PageIsSlice ==
  Answered200
    => LET S == MatchingDocs(chats, rreq.query)
           skip == (ToNumber(PageOf(rreq.q)) - 1) * ToNumber(PageSizeOf(rreq.q))
           got == [k \in DOMAIN rreq.results |-> rreq.results[k]._id]
           seen == {pg[1] : pg \in shown.pages}
       IN
       /\ \E o \in DescOrders(chats, S) :
            got = SkipLimit(o, skip, ToNumber(PageSizeOf(rreq.q)))
       /\ \A k \in DOMAIN rreq.res.data :
            /\ "chat_list" \notin DOMAIN rreq.res.data[k]
            /\ rreq.res.data[k].email = chats[got[k]].email
            /\ rreq.res.data[k].chat_date =
                 FormatDateTime(UtcToZonedTime(chats[got[k]].chat_date))
            /\ rreq.res.data[k].input_token = chats[got[k]].input_token
            /\ rreq.res.data[k].output_token = chats[got[k]].output_token
       /\ (1..rreq.res.totalPages \subseteq seen)
            => UNION {pg[2] : pg \in {x \in shown.pages :
                                        x[1] \in 1..rreq.res.totalPages}} = S

\* What a report says of a store state c: its page is a page of c, its
\* count is the count of c, its token totals are the totals of c.
PageDescribes(c) ==
  \E o \in DescOrders(c, MatchingDocs(c, rreq.query)) :
     LET page == SkipLimit(o, rreq.skip, rreq.limit) IN
     rreq.results = [k \in DOMAIN page |-> Select(c, page[k])]

CountDescribes(c) ==
  rreq.res.totalCount = Cardinality(MatchingDocs(c, rreq.query))

TotalsDescribe(c) ==
  /\ rreq.res.totalInputTokens =
       GroupSum(c, MatchingDocs(c, rreq.query), "input_token")
  /\ rreq.res.totalOutputTokens =
       GroupSum(c, MatchingDocs(c, rreq.query), "output_token")

\* C19 as stated: the page, the count and the token totals of a report
\* all describe one single store state that existed during the request.
C19_OneSnapshot ==
  Answered200
    => \E c \in snaps : PageDescribes(c) /\ CountDescribes(c) /\ TotalsDescribe(c)

\* C19 as amended: each of the page, the count and the token totals
\* describes a store state that existed during the request (one and the
\* same state when no write took effect during the request).
C19_EachReadSomeSnapshot ==
  Answered200
    => /\ \E c \in snaps : PageDescribes(c)
       /\ \E c \in snaps : CountDescribes(c)
       /\ \E c \in snaps : TotalsDescribe(c)

\* A report during which a write took effect and whose three parts
\* describe no common store state.
C19_Witness ==
  /\ Answered200
  /\ Cardinality(snaps) >= 2
  /\ ~ \E c \in snaps : PageDescribes(c) /\ CountDescribes(c) /\ TotalsDescribe(c)

====
